---------------------------- MODULE Spec2Model ----------------------------
(***************************************************************************)
(* Model of the complaint submission bot (src/main.py).                    *)
(*                                                                         *)
(* Python strings are modelled as sequences of one-character strings, so   *)
(* that replace(), split(), join(), strip(), lower() and startswith() are  *)
(* computed as the code computes them.  Python dictionaries are modelled   *)
(* as functions whose DOMAIN is the set of keys present.                   *)
(*                                                                         *)
(* Every handler is one atomic action: the Application processes updates   *)
(* one at a time (concurrent_updates is off), so a handler runs to its     *)
(* return or to the exception that leaves it before the next update.       *)
(***************************************************************************)
EXTENDS Integers, Sequences, FiniteSets, TLC

VARIABLES
    user_data_store,    \* main.py:44  user id -> dict of draft fields
    complaint_store,    \* main.py:45  complaint id -> complaint dict
    complaint_counter,  \* main.py:46
    conversations,      \* ConversationHandler state, (chat id, user id) -> state
    outbox,             \* gateway calls issued while handling the last update
    lastUpdate          \* the last inbound update and the handler that took it

vars == <<user_data_store, complaint_store, complaint_counter,
          conversations, outbox, lastUpdate>>

---------------------------------------------------------------------------
(* Bounds of the model.                                                    *)

\* create_complaint is not called once this many complaints exist.
MaxComplaints == 2

---------------------------------------------------------------------------
(* Python values.                                                          *)

\* Python's None.  Every other value of the model is a sequence of
\* one-character strings, or a number.
None == <<"None">>

\* ConversationHandler.END
END == -1

\* main.py:28-34
BATCH_SELECTION == 0

SUBJECT_SELECTION == 1

LECTURE_NAME_INPUT == 2

SCREENSHOT_UPLOAD == 3

\* main.py:25 (default of ADMIN_CHAT_ID).  Chat and user ids are only ever
\* compared, and this one is wider than 32 bits: an id is modelled by its
\* decimal digits.
ADMIN_CHAT_ID == <<"5", "9", "1", "5", "8", "7", "1", "7", "7", "0">>

\* main.py:37
BATCHES ==
    << <<"M", "a", "s", "t", "e", "r", " ", "q", "u", "e", "s", "t", " ", "2", ".", "0", " ", "2", "0", "2", "5">>,
       <<"m", "a", "s", "t", "e", "r", " ", "q", "u", "e", "s", "t", " ", "2", "0", "2", "6">>,
       <<"A", "c", "e", " ", "i", "p", "m", " ", "c", "r", "a", "s", "h", " ", "c", "o", "u", "r", "s", "e">> >>

\* main.py:38
SUBJECTS ==
    << <<"Q", "u", "a", "n", "t">>,
       <<"D", "I", "L", "R">>,
       <<"V", "A", "R", "C">>,
       <<"C", "u", "r", "r", "e", "n", "t", " ", "A", "f", "f", "a", "i", "r", "s">> >>

\* main.py:41
STATUS_OPTIONS ==
    << <<"S", "e", "n", "d">>,
       <<"S", "e", "e", "n">>,
       <<"A", "p", "p", "r", "o", "v", "e", "d">>,
       <<"R", "e", "s", "o", "l", "v", "e", "d">> >>

\* main.py:85
SUBMITTED == <<"s", "u", "b", "m", "i", "t", "t", "e", "d">>

---------------------------------------------------------------------------
(* Python string methods.                                                  *)

UpperCase == <<"A", "B", "C", "D", "E", "F", "G", "H", "I", "J", "K", "L", "M",
               "N", "O", "P", "Q", "R", "S", "T", "U", "V", "W", "X", "Y", "Z">>

LowerCase == <<"a", "b", "c", "d", "e", "f", "g", "h", "i", "j", "k", "l", "m",
               "n", "o", "p", "q", "r", "s", "t", "u", "v", "w", "x", "y", "z">>

Digits == <<"0", "1", "2", "3", "4", "5", "6", "7", "8", "9">>

\* str.lower() on one character
LowerChar(c) ==
    IF \E i \in 1..Len(UpperCase) : UpperCase[i] = c
    THEN LowerCase[CHOOSE i \in 1..Len(UpperCase) : UpperCase[i] = c]
    ELSE c

\* str.lower()
Lower(s) == [i \in 1..Len(s) |-> LowerChar(s[i])]

\* str.startswith(prefix)
StartsWith(s, prefix) ==
    /\ Len(s) >= Len(prefix)
    /\ SubSeq(s, 1, Len(prefix)) = prefix

\* s[i:] (1-based i)
From(s, i) == SubSeq(s, i, Len(s))

\* str.replace(old, new) for a non-empty old: every non-overlapping
\* occurrence, scanning from the left.
RECURSIVE Replace(_, _, _)
Replace(s, old, new) ==
    IF Len(s) < Len(old) THEN s
    ELSE IF StartsWith(s, old)
         THEN new \o Replace(From(s, Len(old) + 1), old, new)
         ELSE <<s[1]>> \o Replace(Tail(s), old, new)

\* str.split(sep) for a one-character sep: always at least one part.
RECURSIVE Split(_, _)
Split(s, sep) ==
    IF \A i \in 1..Len(s) : s[i] # sep THEN <<s>>
    ELSE LET k == CHOOSE i \in 1..Len(s) :
                      /\ s[i] = sep
                      /\ \A j \in 1..(i - 1) : s[j] # sep
         IN  <<SubSeq(s, 1, k - 1)>> \o Split(From(s, k + 1), sep)

\* sep.join(parts)
RECURSIVE Join(_, _)
Join(sep, parts) ==
    IF Len(parts) = 0 THEN <<>>
    ELSE IF Len(parts) = 1 THEN parts[1]
         ELSE parts[1] \o sep \o Join(sep, Tail(parts))

\* The characters str.strip() removes (those of str.isspace()): space, tab,
\* line feed, carriage return, form feed, and, written as the characters
\* themselves, U+000B, U+001C, U+001D, U+001E, U+001F, U+0085, U+00A0 and
\* U+1680.  The remaining white space of Python (U+2000 to U+200A, U+2028,
\* U+2029, U+202F, U+205F, U+3000) cannot be written in a string of this
\* language, so no text of the model holds it.
Whitespace ==
    {" ", "\t", "\n", "\r", "\f",
     "", "", "", "", "", "", " ", " "}

\* A strip() that knows the space character only
IsSpace_SpaceOnly(c) == c = " "

IsSpace(c) == c \in Whitespace

\* str.strip()
RECURSIVE LStrip(_)
LStrip(s) == IF Len(s) > 0 /\ IsSpace(s[1]) THEN LStrip(Tail(s)) ELSE s

RECURSIVE RStrip(_)
RStrip(s) ==
    IF Len(s) > 0 /\ IsSpace(s[Len(s)])
    THEN RStrip(SubSeq(s, 1, Len(s) - 1))
    ELSE s

Strip(s) == RStrip(LStrip(s))

\* str(n) for n >= 0
RECURSIVE IntToStr(_)
IntToStr(n) ==
    IF n < 10 THEN <<Digits[n + 1]>>
    ELSE IntToStr(n \div 10) \o <<Digits[(n % 10) + 1]>>

---------------------------------------------------------------------------
(* Python dictionaries.                                                    *)

EmptyDict == [k \in {} |-> None]

\* d[key] = value
DictSet(d, key, value) ==
    [k \in (DOMAIN d) \cup {key} |-> IF k = key THEN value ELSE d[k]]

\* del d[key]
DictDel(d, key) == [k \in (DOMAIN d) \ {key} |-> d[k]]

\* d.get(key)
DictGet(d, key) == IF key \in DOMAIN d THEN d[key] ELSE None

---------------------------------------------------------------------------
(* Record store: main.py:49-103.                                           *)

\* main.py:49-54
store_user_data(store, user_id, key, value) ==
    LET with_user == IF user_id \in DOMAIN store
                     THEN store
                     ELSE DictSet(store, user_id, EmptyDict)
    IN  DictSet(with_user, user_id, DictSet(with_user[user_id], key, value))

\* main.py:56-63, called without a key
get_user_data(store, user_id) ==
    IF user_id \notin DOMAIN store THEN EmptyDict ELSE store[user_id]

\* main.py:65-69
clear_user_data(store, user_id) ==
    IF user_id \in DOMAIN store THEN DictDel(store, user_id) ELSE store

\* main.py:76
ComplaintId(counter) ==
    <<"c", "o", "m", "p", "l", "a", "i", "n", "t", "_">> \o IntToStr(counter)

\* main.py:77-87
ComplaintData(complaint_id, user_id, username, batch, subject, lecture_name, photo_file_id) ==
    [id            |-> complaint_id,
     user_id       |-> user_id,
     username      |-> username,
     batch         |-> batch,
     subject       |-> subject,
     lecture_name  |-> lecture_name,
     photo_file_id |-> photo_file_id,
     status        |-> SUBMITTED,
     created_at    |-> None]

\* create_complaint without the increment of main.py:74
create_complaint_NoIncrement(store, counter, user_id, username, batch, subject, lecture_name, photo_file_id) ==
    LET complaint_id == ComplaintId(counter)
    IN  [counter |-> counter,
         id      |-> complaint_id,
         store   |-> DictSet(store, complaint_id,
                             ComplaintData(complaint_id, user_id, username,
                                           batch, subject, lecture_name,
                                           photo_file_id))]

\* main.py:71-91: the counter after the call, the id returned and the store
\* after the call.
create_complaint(store, counter, user_id, username, batch, subject, lecture_name, photo_file_id) ==
    LET new_counter  == counter + 1
        complaint_id == ComplaintId(new_counter)
    IN  [counter |-> new_counter,
         id      |-> complaint_id,
         store   |-> DictSet(store, complaint_id,
                             ComplaintData(complaint_id, user_id, username,
                                           batch, subject, lecture_name,
                                           photo_file_id))]

\* update_complaint_status that also blanks the username of the complaint
update_complaint_status_AndUsername(store, complaint_id, new_status) ==
    IF complaint_id \in DOMAIN store
    THEN DictSet(store, complaint_id,
                 [store[complaint_id] EXCEPT !.status = new_status,
                                             !.username = None])
    ELSE store

\* main.py:93-99: the store after the call (the boolean returned is
\* complaint_id \in DOMAIN store; the only caller discards it).
update_complaint_status(store, complaint_id, new_status) ==
    IF complaint_id \in DOMAIN store
    THEN DictSet(store, complaint_id,
                 [store[complaint_id] EXCEPT !.status = new_status])
    ELSE store

\* main.py:101-103
get_complaint(store, complaint_id) == DictGet(store, complaint_id)

\* is_admin that lets every user pass
is_admin_Anyone(user_id) == TRUE

\* main.py:127-129
is_admin(user_id) == user_id = ADMIN_CHAT_ID

---------------------------------------------------------------------------
(* Keyboards: main.py:132-159.  A keyboard is the sequence of its buttons, *)
(* each a record of the label shown and the callback data sent on a press. *)

Button(text, callback_data) == [text |-> text, callback_data |-> callback_data]

\* main.py:136
BatchCallbackData(batch) ==
    <<"b", "a", "t", "c", "h", "_">> \o Replace(batch, <<" ">>, <<"_">>)

\* main.py:132-137
get_batch_keyboard ==
    [i \in 1..Len(BATCHES) |-> Button(BATCHES[i], BatchCallbackData(BATCHES[i]))]

\* main.py:143
SubjectCallbackData(subject) ==
    <<"s", "u", "b", "j", "e", "c", "t", "_">> \o Replace(subject, <<" ">>, <<"_">>)

\* main.py:139-144
get_subject_keyboard ==
    [i \in 1..Len(SUBJECTS) |->
        Button(SUBJECTS[i], SubjectCallbackData(SUBJECTS[i]))]

\* get_status_keyboard carrying the labels as they are, not lower-cased
StatusCallbackData_NoLower(complaint_id, status) ==
    <<"s", "t", "a", "t", "u", "s", "_">> \o complaint_id \o <<"_">> \o status

\* main.py:151
StatusCallbackData(complaint_id, status) ==
    <<"s", "t", "a", "t", "u", "s", "_">> \o complaint_id \o <<"_">> \o Lower(status)

\* main.py:146-159 (the rows of two are flattened: layout only)
get_status_keyboard(complaint_id) ==
    [i \in 1..Len(STATUS_OPTIONS) |->
        Button(STATUS_OPTIONS[i],
               StatusCallbackData(complaint_id, STATUS_OPTIONS[i]))]

\* The decoding of main.py:210 without turning '_' back into ' '
DecodeBatch_KeepUnderscores(data) ==
    Replace(data, <<"b", "a", "t", "c", "h", "_">>, <<>>)

\* main.py:210
DecodeBatch(data) ==
    Replace(Replace(data, <<"b", "a", "t", "c", "h", "_">>, <<>>), <<"_">>, <<" ">>)

\* main.py:231
DecodeSubject(data) ==
    Replace(Replace(data, <<"s", "u", "b", "j", "e", "c", "t", "_">>, <<>>),
            <<"_">>, <<" ">>)

\* main.py:371
StatusParts(data) == Split(data, "_")

\* split('_')[1], which is not the whole id when the id holds a '_'
StatusComplaintId_SecondPart(parts) == parts[2]

\* main.py:373
StatusComplaintId(parts) == Join(<<"_">>, SubSeq(parts, 2, Len(parts) - 1))

\* main.py:374
StatusNewStatus(parts) == parts[Len(parts)]

---------------------------------------------------------------------------
(* The messaging gateway.                                                  *)

\* One call to the gateway: the method, the chat it addresses, which of the
\* bot's messages it carries, the complaint id and status the message names
\* (None when it names none), and whether the call returned (ok) or raised.
Call(method, chat, msg, id, status, ok) ==
    [method |-> method, chat |-> chat, msg |-> msg, id |-> id,
     status |-> status, ok |-> ok]

\* A fault is the gateway method that raises while one update is handled.
\* edit_message_text can raise BadRequest("Message is not modified"), another
\* BadRequest, or an error that is no BadRequest.
Ok(method, fault) == fault # method

\* The ConversationHandler key of an update (per_chat and per_user)
Key(chat, user) == <<chat, user>>

\* ConversationHandler._update_state: END removes the conversation, any
\* other state is recorded.
UpdateState(convs, key, new_state) ==
    IF new_state = END
    THEN DictDel(convs, key)
    ELSE DictSet(convs, key, new_state)

\* An update as recorded in lastUpdate.
Update(kind, chat, user, data, handler) ==
    [kind |-> kind, chat |-> chat, user |-> user, data |-> data,
     handler |-> handler]

---------------------------------------------------------------------------
(* Handlers: main.py:167-452.  Each takes the chat and user of the update, *)
(* its payload and the fault of the gateway while it runs.  A handler that *)
(* raises leaves the conversation state as it was: ConversationHandler     *)
(* records the new state only from a handler that returns.                 *)

\* main.py:167-193
start_command(chat, user, fault) ==
    LET sent == Ok("reply_text", fault)
    IN  /\ user_data_store' = clear_user_data(user_data_store, user)
        /\ outbox' = <<Call("reply_text", chat, "welcome", None, None, sent)>>
        /\ conversations' =
               IF sent
               THEN UpdateState(conversations, Key(chat, user), BATCH_SELECTION)
               ELSE conversations
        /\ UNCHANGED <<complaint_store, complaint_counter>>

\* main.py:195-221
batch_selection_handler(chat, user, data, fault) ==
    LET answered == Ok("answer", fault)
        sent     == Ok("reply_text", fault)
        answer   == Call("answer", chat, "ack", None, None, answered)
        batch    == DecodeBatch(data)
    IN  /\ UNCHANGED <<complaint_store, complaint_counter>>
        /\ IF ~answered
           THEN /\ outbox' = <<answer>>
                /\ UNCHANGED <<user_data_store, conversations>>
           ELSE IF data = <<"r", "e", "s", "t", "a", "r", "t">>
           THEN /\ outbox' = <<answer,
                               Call("reply_text", chat, "starting_over",
                                    None, None, sent)>>
                /\ conversations' =
                       IF sent
                       THEN UpdateState(conversations, Key(chat, user),
                                        BATCH_SELECTION)
                       ELSE conversations
                /\ UNCHANGED user_data_store
           ELSE IF StartsWith(data, <<"b", "a", "t", "c", "h", "_">>)
           THEN /\ user_data_store' =
                       store_user_data(user_data_store, user, "batch", batch)
                /\ outbox' = <<answer,
                               Call("reply_text", chat, "batch_selected",
                                    None, None, sent)>>
                /\ conversations' =
                       IF sent
                       THEN UpdateState(conversations, Key(chat, user),
                                        SUBJECT_SELECTION)
                       ELSE conversations
           ELSE /\ outbox' = <<answer>>
                /\ conversations' =
                       UpdateState(conversations, Key(chat, user),
                                   BATCH_SELECTION)
                /\ UNCHANGED user_data_store

\* main.py:223-245
subject_selection_handler(chat, user, data, fault) ==
    LET answered == Ok("answer", fault)
        sent     == Ok("reply_text", fault)
        answer   == Call("answer", chat, "ack", None, None, answered)
        subject  == DecodeSubject(data)
    IN  /\ UNCHANGED <<complaint_store, complaint_counter>>
        /\ IF ~answered
           THEN /\ outbox' = <<answer>>
                /\ UNCHANGED <<user_data_store, conversations>>
           ELSE IF StartsWith(data, <<"s", "u", "b", "j", "e", "c", "t", "_">>)
           THEN /\ user_data_store' =
                       store_user_data(user_data_store, user, "subject", subject)
                /\ outbox' = <<answer,
                               Call("reply_text", chat, "subject_selected",
                                    None, None, sent)>>
                /\ conversations' =
                       IF sent
                       THEN UpdateState(conversations, Key(chat, user),
                                        LECTURE_NAME_INPUT)
                       ELSE conversations
           ELSE /\ outbox' = <<answer>>
                /\ conversations' =
                       UpdateState(conversations, Key(chat, user),
                                   SUBJECT_SELECTION)
                /\ UNCHANGED user_data_store

\* main.py:247-277
lecture_name_handler(chat, user, text, fault) ==
    LET sent         == Ok("reply_text", fault)
        lecture_name == Strip(text)
    IN  /\ UNCHANGED <<complaint_store, complaint_counter>>
        /\ IF lecture_name = <<>>
           THEN /\ outbox' = <<Call("reply_text", chat, "enter_valid_lecture_name",
                                    None, None, sent)>>
                /\ conversations' =
                       IF sent
                       THEN UpdateState(conversations, Key(chat, user),
                                        LECTURE_NAME_INPUT)
                       ELSE conversations
                /\ UNCHANGED user_data_store
           ELSE /\ user_data_store' =
                       store_user_data(user_data_store, user, "lecture_name",
                                       lecture_name)
                /\ outbox' = <<Call("reply_text", chat, "lecture_name_saved",
                                    None, None, sent)>>
                /\ conversations' =
                       IF sent
                       THEN UpdateState(conversations, Key(chat, user),
                                        SCREENSHOT_UPLOAD)
                       ELSE conversations

\* main.py:328-356: the calls send_complaint_to_admin makes.  Whatever the
\* gateway raises is caught and logged (main.py:355-356).
send_complaint_to_admin(complaint_id, fault) ==
    LET photo_sent == Ok("send_photo", fault)
        send_photo == Call("send_photo", ADMIN_CHAT_ID, "complaint_photo",
                           complaint_id, None, photo_sent)
        summary    == Call("send_message", ADMIN_CHAT_ID, "complaint_summary",
                           complaint_id, SUBMITTED, Ok("send_message", fault))
    IN  IF photo_sent THEN <<send_photo, summary>> ELSE <<send_photo>>

\* main.py:279-326.  photo is update.message.photo, the file ids of the
\* sizes of the image (empty for a message that carries no image).
screenshot_handler(chat, user, username, photo, fault) ==
    LET sent          == Ok("reply_text", fault)
        photo_file_id == <<photo[Len(photo)]>>
        user_data     == get_user_data(user_data_store, user)
        created       == create_complaint(complaint_store, complaint_counter,
                                          user, username,
                                          DictGet(user_data, "batch"),
                                          DictGet(user_data, "subject"),
                                          DictGet(user_data, "lecture_name"),
                                          photo_file_id)
        with_id       == store_user_data(user_data_store, user, "complaint_id",
                                         created.id)
        confirmation  == Call("reply_text", chat, "complaint_submitted",
                              created.id, SUBMITTED, sent)
    IN  IF photo = <<>>
        THEN /\ outbox' = <<Call("reply_text", chat, "send_an_image",
                                 None, None, sent)>>
             /\ conversations' =
                    IF sent
                    THEN UpdateState(conversations, Key(chat, user),
                                     SCREENSHOT_UPLOAD)
                    ELSE conversations
             /\ UNCHANGED <<user_data_store, complaint_store, complaint_counter>>
        ELSE /\ complaint_counter' = created.counter
             /\ complaint_store' = created.store
             /\ IF sent
                THEN /\ outbox' = <<confirmation>>
                                  \o send_complaint_to_admin(created.id, fault)
                     /\ user_data_store' = clear_user_data(with_id, user)
                     /\ conversations' =
                            UpdateState(conversations, Key(chat, user), END)
                ELSE /\ outbox' = <<confirmation>>
                     /\ user_data_store' = with_id
                     /\ UNCHANGED conversations

\* The except branch of main.py:426-431 logging only, without the reply to
\* the reviewer
StatusNotification_NoWarning(chat, complaint_data, complaint_id, new_status, shown, fault) ==
    LET notified == Ok("send_message", fault)
        notify   == Call("send_message", complaint_data.user_id,
                         "status_updated", complaint_id, new_status, notified)
    IN  IF ~notified THEN <<notify>>
        ELSE <<notify,
               Call("edit_message_text", chat, "complaint_summary",
                    complaint_id, shown, Ok("edit_message_text", fault))>>

\* main.py:385-431: the calls made after the status was written.
StatusNotification(chat, complaint_data, complaint_id, new_status, shown, fault) ==
    LET notified == Ok("send_message", fault)
        notify   == Call("send_message", complaint_data.user_id,
                         "status_updated", complaint_id, new_status, notified)
        edit(ok) == Call("edit_message_text", chat, "complaint_summary",
                         complaint_id, shown, ok)
        warning  == Call("reply_text", chat, "updated_could_not_notify",
                         complaint_id, new_status, Ok("reply_text", fault))
        updated  == Call("reply_text", chat, "updated_user_notified",
                         complaint_id, new_status, Ok("reply_text", fault))
    IN  IF ~notified THEN <<notify, warning>>
        ELSE IF fault = "edit_message_text:not_modified"
             THEN <<notify, edit(FALSE)>>
        ELSE IF fault = "edit_message_text:bad_request"
             THEN <<notify, edit(FALSE), updated>>
        ELSE IF fault = "edit_message_text"
             THEN <<notify, edit(FALSE), warning>>
        ELSE <<notify, edit(TRUE)>>

\* The not-found branch returning without a report
NotFoundReply_Silent(chat, fault) == <<>>

\* main.py:378-380: the report of a complaint id that is not in the store
NotFoundReply(chat, fault) ==
    <<Call("reply_text", chat, "complaint_not_found", None, None,
           Ok("reply_text", fault))>>

\* main.py:358-431
admin_status_handler(chat, user, data, fault) ==
    LET answered       == Ok("answer", fault)
        answer         == Call("answer", chat, "ack", None, None, answered)
        parts          == StatusParts(data)
        complaint_id   == StatusComplaintId(parts)
        new_status     == StatusNewStatus(parts)
        complaint_data == get_complaint(complaint_store, complaint_id)
        updated_store  == update_complaint_status(complaint_store, complaint_id,
                                                  new_status)
    IN  /\ UNCHANGED <<user_data_store, complaint_counter, conversations>>
        /\ IF ~is_admin(user)
           THEN /\ outbox' = <<Call("answer", chat, "not_authorized",
                                    None, None, answered)>>
                /\ UNCHANGED complaint_store
           ELSE IF ~answered
           THEN /\ outbox' = <<answer>>
                /\ UNCHANGED complaint_store
           ELSE IF ~(/\ StartsWith(data, <<"s", "t", "a", "t", "u", "s", "_">>)
                     /\ Len(parts) >= 3)
           THEN /\ outbox' = <<answer>>
                /\ UNCHANGED complaint_store
           ELSE IF complaint_id \notin DOMAIN complaint_store  \* not complaint_data
           THEN /\ outbox' = <<answer>> \o NotFoundReply(chat, fault)
                /\ UNCHANGED complaint_store
           ELSE /\ complaint_store' = updated_store
                /\ outbox' = <<answer>>
                       \o StatusNotification(chat, complaint_data, complaint_id,
                              new_status,
                              get_complaint(updated_store, complaint_id).status,
                              fault)

\* main.py:433-445
cancel_handler(chat, user, fault) ==
    LET sent == Ok("reply_text", fault)
    IN  /\ user_data_store' = clear_user_data(user_data_store, user)
        /\ outbox' = <<Call("reply_text", chat, "cancelled", None, None, sent)>>
        /\ conversations' =
               IF sent
               THEN UpdateState(conversations, Key(chat, user), END)
               ELSE conversations
        /\ UNCHANGED <<complaint_store, complaint_counter>>

\* main.py:447-452
unknown_handler(chat, user, fault) ==
    /\ outbox' = <<Call("reply_text", chat, "dont_understand", None, None,
                        Ok("reply_text", fault))>>
    /\ UNCHANGED <<user_data_store, complaint_store, complaint_counter,
                   conversations>>

---------------------------------------------------------------------------
(* Dispatch: main.py:465-492.                                              *)

\* CommandHandler(name): a command message with that name
IsCommand(kind, data, name) == kind = "command" /\ data = name

\* MessageHandler(filters.TEXT & ~filters.COMMAND)
IsPlainText(kind) == kind = "text"

\* ConversationHandler.check_update over main.py:465-487: the handler of
\* the conversation that takes the update, "none" when there is none.  With
\* allow_reentry the entry points are tried first in every state; then the
\* handlers of the current state; then the fallbacks.
ConversationCheck(convs, kind, chat, user, data) ==
    LET key   == Key(chat, user)
        state == convs[key]
    IN  IF IsCommand(kind, data, <<"s", "t", "a", "r", "t">>)
        THEN "start_command"
        ELSE IF key \notin DOMAIN convs THEN "none"
        ELSE IF /\ state = BATCH_SELECTION
                /\ kind = "callback_query"
                /\ \/ StartsWith(data, <<"b", "a", "t", "c", "h", "_">>)
                   \/ StartsWith(data, <<"r", "e", "s", "t", "a", "r", "t">>)
        THEN "batch_selection_handler"
        ELSE IF /\ state = SUBJECT_SELECTION
                /\ kind = "callback_query"
                /\ StartsWith(data, <<"s", "u", "b", "j", "e", "c", "t", "_">>)
        THEN "subject_selection_handler"
        ELSE IF state = LECTURE_NAME_INPUT /\ IsPlainText(kind)
        THEN "lecture_name_handler"
        ELSE IF state = SCREENSHOT_UPLOAD /\ (kind = "photo" \/ IsPlainText(kind))
        THEN "screenshot_handler"
        ELSE IF IsCommand(kind, data, <<"c", "a", "n", "c", "e", "l">>)
        THEN "cancel_handler"
        ELSE "none"

\* unknown_handler registered for every message instead of filters.COMMAND
check_update_AnyMessage(convs, kind, chat, user, data) ==
    LET conv == ConversationCheck(convs, kind, chat, user, data)
    IN  IF conv # "none" THEN conv
        ELSE IF /\ kind = "callback_query"
                /\ StartsWith(data, <<"s", "t", "a", "t", "u", "s", "_">>)
        THEN "admin_status_handler"
        ELSE IF kind # "callback_query" THEN "unknown_handler"
        ELSE "none"

\* Application.process_update over main.py:490-492: the first handler of
\* the group whose check accepts the update handles it, and only that one.
check_update(convs, kind, chat, user, data) ==
    LET conv == ConversationCheck(convs, kind, chat, user, data)
    IN  IF conv # "none" THEN conv
        ELSE IF /\ kind = "callback_query"
                /\ StartsWith(data, <<"s", "t", "a", "t", "u", "s", "_">>)
        THEN "admin_status_handler"
        ELSE IF kind = "command" THEN "unknown_handler"
        ELSE "none"

---------------------------------------------------------------------------
(* The inbound updates of the model.                                       *)

\* A second user, and a group chat the bot is a member of.
Student == <<"5", "9", "1", "5", "8", "7", "1", "7", "7", "1">>

GroupChat == <<"-", "1", "0", "0", "1">>

\* user.username (optional)
Username(user) ==
    IF user = Student THEN <<"a", "l", "i", "c", "e">> ELSE None

\* A session is the (chat, user) pair an update comes from.  A private chat
\* has the id of its user.
Private(user) == <<user, user>>

InGroup(user) == <<GroupChat, user>>

START == <<"s", "t", "a", "r", "t">>

CANCEL == <<"c", "a", "n", "c", "e", "l">>

RESTART == <<"r", "e", "s", "t", "a", "r", "t">>

Commands == {START, CANCEL, <<"h", "e", "l", "p">>}

\* Ids a status button can name: those ever issued and one never issued.
ButtonComplaintIds == {ComplaintId(n) : n \in 1..(MaxComplaints + 1)}

\* Text messages (filters.TEXT: never empty): one of white space only (a
\* space and a tab), and a lecture name typed with a tab before it and a
\* space after it.
TextInputs == {<<" ", "\t">>, <<"\t", "L", "3", " ">>}

\* update.message.photo of an uploaded image: its sizes, smallest first,
\* each given by its file id, a string of one character.
PhotoInputs == {<<"p", "q">>}

\* A file that is no image, given by its file id.
DocumentInputs == {<<"d">>}

\* An inbound update: its kind, the chat and user it comes from, and its
\* payload (the command name, the callback data, the text, the photo sizes
\* or the document).
Inbound(kind, session, data) ==
    [kind |-> kind, chat |-> session[1], user |-> session[2], data |-> data]

\* Callback data of the buttons a user is shown: the batch and subject
\* buttons at the given positions of their keyboards.
FlowButtons(batches, subjects) ==
    {get_batch_keyboard[i].callback_data : i \in batches}
    \cup {get_subject_keyboard[i].callback_data : i \in subjects}

\* Callback data of the status buttons at the given positions, for every id
\* a button can name.
StatusButtons(statuses) ==
    {get_status_keyboard(id)[i].callback_data :
         id \in ButtonComplaintIds, i \in statuses}

\* The updates of a user who walks the submission flow: commands, presses
\* of the given buttons, text, an image, a document.
FlowUpdates(sessions, callbacks) ==
    {Inbound("command", s, name) : s \in sessions, name \in Commands}
    \cup {Inbound("callback_query", s, data) : s \in sessions, data \in callbacks}
    \cup {Inbound("text", s, text) : s \in sessions, text \in TextInputs}
    \cup {Inbound("photo", s, photo) : s \in sessions, photo \in PhotoInputs}
    \cup {Inbound("document", s, doc) : s \in sessions, doc \in DocumentInputs}

\* Presses of status buttons.
StatusUpdates(sessions, callbacks) ==
    {Inbound("callback_query", s, data) : s \in sessions, data \in callbacks}

\* A scope bounds one specification: the updates that can arrive and the
\* gateway faults that can occur.
Scope(updates, faults) == [updates |-> updates, faults |-> faults]

Faults(sc, methods) == {"none"} \cup (sc.faults \cap methods)

EditFaults == {"edit_message_text", "edit_message_text:bad_request",
               "edit_message_text:not_modified"}

AllFaults == {"answer", "reply_text", "send_message", "send_photo"}
             \cup EditFaults

---------------------------------------------------------------------------
(* The state machine.  There is one action per handler: the handler takes  *)
(* whichever update the dispatch of main.py:465-492 routes to it.          *)

Init ==
    /\ user_data_store = EmptyDict
    /\ complaint_store = EmptyDict
    /\ complaint_counter = 0
    /\ conversations = EmptyDict
    /\ outbox = <<>>
    /\ lastUpdate = Update("none", None, None, None, "none")

\* The update u goes to the handler `name`.
Takes(name, u) ==
    /\ check_update(conversations, u.kind, u.chat, u.user, u.data) = name
    /\ lastUpdate' = Update(u.kind, u.chat, u.user, u.data, name)

StartCommand(sc) ==
    \E u \in sc.updates, fault \in Faults(sc, {"reply_text"}) :
        /\ Takes("start_command", u)
        /\ start_command(u.chat, u.user, fault)

BatchSelection(sc) ==
    \E u \in sc.updates, fault \in Faults(sc, {"answer", "reply_text"}) :
        /\ Takes("batch_selection_handler", u)
        /\ batch_selection_handler(u.chat, u.user, u.data, fault)

SubjectSelection(sc) ==
    \E u \in sc.updates, fault \in Faults(sc, {"answer", "reply_text"}) :
        /\ Takes("subject_selection_handler", u)
        /\ subject_selection_handler(u.chat, u.user, u.data, fault)

LectureName(sc) ==
    \E u \in sc.updates, fault \in Faults(sc, {"reply_text"}) :
        /\ Takes("lecture_name_handler", u)
        /\ lecture_name_handler(u.chat, u.user, u.data, fault)

\* update.message.photo is empty for a message that is no image.
Screenshot(sc) ==
    \E u \in sc.updates,
       fault \in Faults(sc, {"reply_text", "send_photo", "send_message"}) :
        /\ u.kind = "photo" => complaint_counter < MaxComplaints
        /\ Takes("screenshot_handler", u)
        /\ screenshot_handler(u.chat, u.user, Username(u.user),
                              IF u.kind = "photo" THEN u.data ELSE <<>>, fault)

\* The only call made for a user who is not the admin is query.answer.
AdminStatus(sc) ==
    \E u \in sc.updates :
        /\ Takes("admin_status_handler", u)
        /\ \E fault \in Faults(sc, IF u.user = ADMIN_CHAT_ID
                                    THEN {"answer", "reply_text", "send_message"}
                                         \cup EditFaults
                                    ELSE {"answer"}) :
               admin_status_handler(u.chat, u.user, u.data, fault)

Cancel(sc) ==
    \E u \in sc.updates, fault \in Faults(sc, {"reply_text"}) :
        /\ Takes("cancel_handler", u)
        /\ cancel_handler(u.chat, u.user, fault)

UnknownCommand(sc) ==
    \E u \in sc.updates, fault \in Faults(sc, {"reply_text"}) :
        /\ Takes("unknown_handler", u)
        /\ unknown_handler(u.chat, u.user, fault)

\* An update no handler takes: nothing is sent and nothing changes.
Unhandled(sc) ==
    \E u \in sc.updates :
        /\ Takes("none", u)
        /\ outbox' = <<>>
        /\ UNCHANGED <<user_data_store, complaint_store, complaint_counter,
                       conversations>>

\* One update is handled.
Step(sc) ==
    \/ StartCommand(sc)
    \/ BatchSelection(sc)
    \/ SubjectSelection(sc)
    \/ LectureName(sc)
    \/ Screenshot(sc)
    \/ AdminStatus(sc)
    \/ Cancel(sc)
    \/ UnknownCommand(sc)
    \/ Unhandled(sc)

\* One student in a private chat, who also presses status buttons, and the
\* reviewer in a private chat; every gateway fault.
MainScope ==
    Scope(FlowUpdates({Private(Student)}, FlowButtons({1}, {4}) \cup {RESTART})
          \cup StatusUpdates({Private(ADMIN_CHAT_ID), Private(Student)},
                             StatusButtons({3})),
          AllFaults)

Next == Step(MainScope)

Spec == Init /\ [][Next]_vars

\* The student in two chats at once, a private one and the group; the
\* reviewer presses one status button; the gateway never fails.
ChatsScope ==
    Scope(FlowUpdates({Private(Student), InGroup(Student)}, FlowButtons({1}, {4}))
          \cup StatusUpdates({Private(ADMIN_CHAT_ID)},
                   {get_status_keyboard(ComplaintId(1))[3].callback_data}),
          {})

NextChats == Step(ChatsScope)

SpecChats == Init /\ [][NextChats]_vars

\* Callback data no keyboard of the bot renders, as a client can send it:
\* the prefixes of main.py:468-472 followed by a name of no list.
ForgedButtons ==
    {<<"b", "a", "t", "c", "h", "_", "X">>,
     <<"s", "u", "b", "j", "e", "c", "t", "_", "Y">>}

\* The student in a private chat, who presses rendered and forged buttons;
\* the reviewer presses one status button; the gateway never fails.
ForgedScope ==
    Scope(FlowUpdates({Private(Student)}, FlowButtons({1}, {4}) \cup ForgedButtons)
          \cup StatusUpdates({Private(ADMIN_CHAT_ID)},
                   {get_status_keyboard(ComplaintId(1))[3].callback_data}),
          {})

NextForged == Step(ForgedScope)

SpecForged == Init /\ [][NextForged]_vars

\* A third user, who has no username.
Other == <<"4", "2">>

\* Two users who walk the flow at the same time with different buttons:
\* the student in the group, the other user in a private chat.  The
\* student also sends /start in a private chat and presses a status button;
\* the gateway never fails.
UsersScope ==
    Scope({u \in FlowUpdates({InGroup(Student)}, FlowButtons({1}, {4})) :
               u.kind \in {"command", "callback_query", "text", "photo"}}
          \cup {u \in FlowUpdates({Private(Other)}, FlowButtons({2}, {1})) :
                    /\ u.kind \in {"command", "callback_query", "text", "photo"}
                    /\ u.kind = "command" => u.data = START
                    /\ u.kind = "text" => ~(\A i \in 1..Len(u.data) : IsSpace(u.data[i]))}
          \cup {Inbound("command", Private(Student), START)}
          \cup StatusUpdates({Private(Student)},
                   {get_status_keyboard(ComplaintId(1))[3].callback_data}),
          {})

NextUsers == Step(UsersScope)

SpecUsers == Init /\ [][NextUsers]_vars

\* The student submits in a private chat and the reviewer presses every
\* status button of every complaint; the gateway can fail on the calls the
\* status handler makes.
ReviewScope ==
    Scope(FlowUpdates({Private(Student)}, FlowButtons({1}, {4}))
          \cup StatusUpdates({Private(ADMIN_CHAT_ID)},
                             StatusButtons(1..Len(STATUS_OPTIONS))),
          {"answer", "send_message"} \cup EditFaults)

NextReview == Step(ReviewScope)

SpecReview == Init /\ [][NextReview]_vars

\* The student presses every batch button and every subject button; the
\* reviewer presses the button of a complaint that is never created; the
\* gateway never fails.
NamesScope ==
    Scope(FlowUpdates({Private(Student)},
                      FlowButtons(1..Len(BATCHES), 1..Len(SUBJECTS)))
          \cup StatusUpdates({Private(ADMIN_CHAT_ID)},
                   {get_status_keyboard(ComplaintId(MaxComplaints + 1))[3].callback_data}),
          {})

NextNames == Step(NamesScope)

SpecNames == Init /\ [][NextNames]_vars

---------------------------------------------------------------------------
(* Vocabulary of the properties.                                           *)

\* The conversation of a session is in Terminal when the ConversationHandler
\* holds no state for it.
Terminal(chat, user) == Key(chat, user) \notin DOMAIN conversations

InState(chat, user, state) ==
    /\ Key(chat, user) \in DOMAIN conversations
    /\ conversations[Key(chat, user)] = state

HasDraft(user) == user \in DOMAIN user_data_store

\* int(s) for a string of digits
RECURSIVE StrToInt(_)
StrToInt(s) ==
    IF Len(s) = 0 THEN 0
    ELSE 10 * StrToInt(SubSeq(s, 1, Len(s) - 1))
         + (CHOOSE d \in 0..9 : Digits[d + 1] = s[Len(s)])

\* The numeric part of a complaint id
IdNumber(complaint_id) == StrToInt(From(complaint_id, Len(ComplaintId(0))))

\* The step handles an update of this kind with this handler.
Handled(kind, handler) ==
    /\ lastUpdate'.kind = kind
    /\ lastUpdate'.handler = handler

\* A text of white space only
IsBlank(text) == \A i \in 1..Len(text) : text[i] \in Whitespace

\* The calls of the step just taken that carry the message msg
Sent(box, msg) == {i \in 1..Len(box) : box[i].msg = msg}

---------------------------------------------------------------------------
(* C1.  When a user in AwaitingPhoto uploads an image, exactly one new     *)
(* Complaint is added to the complaint store, it has status 'submitted',   *)
(* the user's draft entry no longer exists afterwards, and the user's      *)
(* conversation is in Terminal.                                            *)
(* Fails on the code: when the confirmation reply raises, the Complaint    *)
(* exists but the draft is kept and the conversation stays in              *)
(* SCREENSHOT_UPLOAD.                                                      *)
C1_PhotoSubmitsAndEnds ==
    [][Handled("photo", "screenshot_handler") =>
          LET chat == lastUpdate'.chat
              user == lastUpdate'.user
              new  == (DOMAIN complaint_store') \ (DOMAIN complaint_store)
          IN  /\ Cardinality(new) = 1
              /\ \A id \in DOMAIN complaint_store :
                     /\ id \in DOMAIN complaint_store'
                     /\ complaint_store'[id] = complaint_store[id]
              /\ \A id \in new : complaint_store'[id].status = SUBMITTED
              /\ user \notin DOMAIN user_data_store'
              /\ Key(chat, user) \notin DOMAIN conversations']_vars

(* C2.  In every reachable state and for every user, the draft's fields    *)
(* are populated in the order batch, subject, lecture_name: subject is     *)
(* never set while batch is unset, and lecture_name is never set while     *)
(* subject is unset.                                                       *)
(* Fails on the code: the draft is keyed by user id, the conversation by   *)
(* (chat id, user id); /start in a second chat deletes the draft that the  *)
(* first chat's conversation goes on filling.                              *)
C2_DraftFieldsInOrder ==
    \A user \in DOMAIN user_data_store :
        LET draft == user_data_store[user]
        IN  /\ "subject" \in DOMAIN draft => "batch" \in DOMAIN draft
            /\ "lecture_name" \in DOMAIN draft => "subject" \in DOMAIN draft

(* C3.  Every complaint id issued by create_complaint is distinct from all *)
(* earlier ids and its numeric part is strictly greater than that of every *)
(* id issued before; no id is ever reused.  The id issued by a submission  *)
(* is the one its confirmation names.                                      *)
C3_IdsUniqueAndIncreasing ==
    [][Handled("photo", "screenshot_handler") =>
          LET issued == outbox'[1].id
          IN  /\ issued \notin DOMAIN complaint_store
              /\ issued \in DOMAIN complaint_store'
              /\ complaint_store'[issued].id = issued
              /\ IdNumber(issued) = complaint_counter'
              /\ \A old \in DOMAIN complaint_store :
                     /\ old \in DOMAIN complaint_store'
                     /\ IdNumber(issued) > IdNumber(old)]_vars

\* Two complaints exist, the second issued by the last update.
C3_Witness ==
    /\ lastUpdate.kind = "photo"
    /\ lastUpdate.handler = "screenshot_handler"
    /\ Cardinality(DOMAIN complaint_store) = 2
    /\ outbox[1].id = ComplaintId(2)

(* C4.  A status-button event whose acting user id differs from the        *)
(* configured privileged id leaves every Complaint unchanged, and the only *)
(* call made is the answer to the button press that carries the            *)
(* authorization denial.                                                   *)
C4_UnauthorizedChangesNothing ==
    [][(/\ lastUpdate'.handler = "admin_status_handler"
        /\ lastUpdate'.user # ADMIN_CHAT_ID) =>
          /\ complaint_store' = complaint_store
          /\ Len(outbox') = 1
          /\ outbox'[1].method = "answer"
          /\ outbox'[1].msg = "not_authorized"
          /\ outbox'[1].chat = lastUpdate'.chat]_vars

\* The student pressed the status button of an existing complaint and was
\* denied.
C4_Witness ==
    /\ lastUpdate.handler = "admin_status_handler"
    /\ lastUpdate.user = Student
    /\ StatusComplaintId(StatusParts(lastUpdate.data)) \in DOMAIN complaint_store
    /\ outbox[1].msg = "not_authorized"
    /\ outbox[1].ok

(* C5.  A status action by the privileged actor that references a          *)
(* complaint id not present in the store creates no record, changes no     *)
(* existing Complaint and sends no notification to any submitter; 'not     *)
(* found' is reported to the actor in the chat of the button, as the only  *)
(* call after the acknowledgement of the press (a press whose              *)
(* acknowledgement the gateway refuses ends there, with nothing changed).  *)
C5_UnknownIdIsNoOp ==
    [][(/\ lastUpdate'.handler = "admin_status_handler"
        /\ lastUpdate'.user = ADMIN_CHAT_ID
        /\ StatusComplaintId(StatusParts(lastUpdate'.data))
               \notin DOMAIN complaint_store) =>
          /\ complaint_store' = complaint_store
          /\ complaint_counter' = complaint_counter
          /\ \A i \in 1..Len(outbox') : outbox'[i].method # "send_message"
          /\ outbox'[1].method = "answer"
          /\ outbox'[1].ok =>
                 /\ Len(outbox') = 2
                 /\ outbox'[2].method = "reply_text"
                 /\ outbox'[2].msg = "complaint_not_found"
                 /\ outbox'[2].chat = lastUpdate'.chat
          /\ ~outbox'[1].ok => Len(outbox') = 1]_vars

\* The reviewer pressed a button naming an id never issued, while another
\* complaint exists, and was told it was not found.
C5_Witness ==
    /\ lastUpdate.handler = "admin_status_handler"
    /\ lastUpdate.user = ADMIN_CHAT_ID
    /\ complaint_store # EmptyDict
    /\ StatusComplaintId(StatusParts(lastUpdate.data))
           \notin DOMAIN complaint_store
    /\ Len(outbox) = 2
    /\ outbox[2].msg = "complaint_not_found"
    /\ outbox[2].ok

(* C6.  If notifying the submitter fails during an authorised status       *)
(* action on an existing Complaint, the Complaint's status still holds the *)
(* new value afterwards (no rollback), the reviewer is sent the message    *)
(* that the status was updated but the user could not be notified, and the *)
(* notification is attempted once only.                                    *)
C6_NotificationFailureKeepsStatus ==
    [][(/\ lastUpdate'.handler = "admin_status_handler"
        /\ \E i \in Sent(outbox', "status_updated") : ~outbox'[i].ok) =>
          LET parts        == StatusParts(lastUpdate'.data)
              complaint_id == StatusComplaintId(parts)
              new_status   == StatusNewStatus(parts)
              warnings     == Sent(outbox', "updated_could_not_notify")
          IN  /\ complaint_id \in DOMAIN complaint_store
              /\ complaint_store'[complaint_id].status = new_status
              /\ Cardinality(Sent(outbox', "status_updated")) = 1
              /\ Cardinality(warnings) = 1
              /\ \A i \in warnings :
                     /\ outbox'[i].method = "reply_text"
                     /\ outbox'[i].chat = lastUpdate'.chat
                     /\ outbox'[i].status = new_status
                     /\ \A j \in Sent(outbox', "status_updated") : j < i]_vars

\* The reviewer moved a submitted complaint to 'approved', the notification
\* of the submitter raised, and the reviewer was warned.
C6_Witness ==
    /\ lastUpdate.handler = "admin_status_handler"
    /\ lastUpdate.user = ADMIN_CHAT_ID
    /\ \E i \in Sent(outbox, "status_updated") :
           /\ ~outbox[i].ok
           /\ outbox[i].chat = Student
           /\ complaint_store[outbox[i].id].status = Lower(STATUS_OPTIONS[3])
    /\ \E i \in Sent(outbox, "updated_could_not_notify") : outbox[i].ok

(* C7.  In AwaitingLectureName, a text message that is empty or            *)
(* whitespace-only after trimming leaves the user in AwaitingLectureName   *)
(* and leaves the user's draft unchanged; the user is re-prompted.         *)
C7_BlankLectureNameRejected ==
    [][(/\ Handled("text", "lecture_name_handler")
        /\ IsBlank(lastUpdate'.data)) =>
          /\ conversations' = conversations
          /\ conversations'[Key(lastUpdate'.chat, lastUpdate'.user)]
                 = LECTURE_NAME_INPUT
          /\ user_data_store' = user_data_store
          /\ complaint_store' = complaint_store
          /\ Len(outbox') = 1
          /\ outbox'[1].method = "reply_text"
          /\ outbox'[1].msg = "enter_valid_lecture_name"
          /\ outbox'[1].chat = lastUpdate'.chat]_vars

\* The student, whose draft holds batch and subject, sent a space and a
\* tab and was asked again.
C7_Witness ==
    /\ lastUpdate.kind = "text"
    /\ lastUpdate.handler = "lecture_name_handler"
    /\ IsBlank(lastUpdate.data)
    /\ \E i \in 1..Len(lastUpdate.data) : lastUpdate.data[i] = "\t"
    /\ InState(lastUpdate.chat, lastUpdate.user, LECTURE_NAME_INPUT)
    /\ HasDraft(lastUpdate.user)
    /\ DOMAIN user_data_store[lastUpdate.user] = {"batch", "subject"}
    /\ outbox[1].msg = "enter_valid_lecture_name"
    /\ outbox[1].ok

(* C8.  A 'start' event is accepted in every conversation state; after it  *)
(* the user is in AwaitingBatch and no draft data from before the event    *)
(* remains for that user.                                                  *)
(* Fails on the code: start_command clears the draft, and when its reply   *)
(* raises the conversation keeps the state it had.                         *)
C8_StartResets ==
    [][(lastUpdate'.kind = "command" /\ lastUpdate'.data = START) =>
          /\ lastUpdate'.handler = "start_command"
          /\ lastUpdate'.user \notin DOMAIN user_data_store'
          /\ Key(lastUpdate'.chat, lastUpdate'.user) \in DOMAIN conversations'
          /\ conversations'[Key(lastUpdate'.chat, lastUpdate'.user)]
                 = BATCH_SELECTION]_vars

(* C9.  A cancel event is accepted in every non-Terminal state; after it   *)
(* the user's draft does not exist, the user is in Terminal, and the       *)
(* complaint store and complaint counter are unchanged.                    *)
(* Fails on the code: cancel_handler clears the draft, and when its reply  *)
(* raises the conversation keeps the state it had.                         *)
C9_CancelEnds ==
    [][(/\ lastUpdate'.kind = "command"
        /\ lastUpdate'.data = CANCEL
        /\ ~Terminal(lastUpdate'.chat, lastUpdate'.user)) =>
          /\ lastUpdate'.handler = "cancel_handler"
          /\ lastUpdate'.user \notin DOMAIN user_data_store'
          /\ Key(lastUpdate'.chat, lastUpdate'.user) \notin DOMAIN conversations'
          /\ complaint_store' = complaint_store
          /\ complaint_counter' = complaint_counter]_vars

\* The update of the step belongs to a later step of the flow than the
\* state its conversation is in: text, a photo or a subject button in
\* AwaitingBatch; text or a photo in AwaitingSubject; a photo in
\* AwaitingLectureName.
LaterStepInput ==
    LET chat == lastUpdate'.chat
        user == lastUpdate'.user
        kind == lastUpdate'.kind
    IN  /\ kind \in {"text", "photo", "callback_query"}
        /\ \/ /\ InState(chat, user, BATCH_SELECTION)
              /\ \/ kind \in {"text", "photo"}
                 \/ /\ kind = "callback_query"
                    /\ StartsWith(lastUpdate'.data,
                                  <<"s", "u", "b", "j", "e", "c", "t", "_">>)
           \/ /\ InState(chat, user, SUBJECT_SELECTION)
              /\ kind \in {"text", "photo"}
           \/ /\ InState(chat, user, LECTURE_NAME_INPUT)
              /\ kind = "photo"

(* C10, as claimed.  An input that belongs to a later step than the user's *)
(* current state leaves the draft and the conversation state unchanged and *)
(* causes a re-prompt to be sent to the user.                              *)
C10_LaterStepInputReprompts ==
    [][LaterStepInput =>
          /\ user_data_store' = user_data_store
          /\ conversations' = conversations
          /\ \E i \in 1..Len(outbox') :
                 /\ outbox'[i].method = "reply_text"
                 /\ outbox'[i].chat = lastUpdate'.chat]_vars

(* C10, amended.  An input that belongs to a later step than the user's    *)
(* current state is taken by no handler: the draft, the conversation       *)
(* state and the complaints are unchanged, and nothing is sent, so the     *)
(* user is not re-prompted.                                                *)
C10_LaterStepInputIgnored ==
    [][LaterStepInput =>
          /\ lastUpdate'.handler = "none"
          /\ user_data_store' = user_data_store
          /\ conversations' = conversations
          /\ complaint_store' = complaint_store
          /\ complaint_counter' = complaint_counter
          /\ outbox' = <<>>]_vars

\* The student sent a photo while in AwaitingBatch, and it was ignored.
C10_Witness ==
    /\ lastUpdate.kind = "photo"
    /\ lastUpdate.handler = "none"
    /\ InState(lastUpdate.chat, lastUpdate.user, BATCH_SELECTION)
    /\ outbox = <<>>

\* The elements of a list
Range(seq) == {seq[i] : i \in 1..Len(seq)}

\* The update of the step is no image and is neither /start nor /cancel:
\* text, a command the bot does not know, a button press, a file that is
\* no image.
NonImageInput ==
    \/ lastUpdate'.kind \in {"text", "callback_query", "document"}
    \/ /\ lastUpdate'.kind = "command"
       /\ lastUpdate'.data \notin {START, CANCEL}

(* C11.  In AwaitingPhoto, every inbound event that is not an image        *)
(* attachment (text, unrecognised command, button press, non-image upload) *)
(* is answered in the chat it came from (whatever the answer says),        *)
(* leaves the user in AwaitingPhoto, creates no Complaint and leaves the   *)
(* draft unchanged.                                                        *)
(* Fails on the code: SCREENSHOT_UPLOAD registers handlers for photos and  *)
(* for text only, so a document or a button press is taken by no handler   *)
(* and nothing is sent.                                                    *)
C11_NonImageReprompted ==
    [][(/\ InState(lastUpdate'.chat, lastUpdate'.user, SCREENSHOT_UPLOAD)
        /\ NonImageInput) =>
          /\ conversations' = conversations
          /\ user_data_store' = user_data_store
          /\ complaint_store' = complaint_store
          /\ complaint_counter' = complaint_counter
          /\ \E i \in 1..Len(outbox') : outbox'[i].chat = lastUpdate'.chat]_vars

(* C12.  A selection whose value is not in the batch list causes no write  *)
(* to the draft, so the draft's batch (when set) is always a member of the *)
(* batch list; the same holds for the subject and the subject list.        *)
(* Fails on the code: the handlers test the prefix of the callback data    *)
(* only and store whatever follows it.                                     *)
C12_DraftValuesConfigured ==
    \A user \in DOMAIN user_data_store :
        LET draft == user_data_store[user]
        IN  /\ "batch" \in DOMAIN draft => draft["batch"] \in Range(BATCHES)
            /\ "subject" \in DOMAIN draft => draft["subject"] \in Range(SUBJECTS)

\* The users who walk the flow in SpecUsers, and what each of them enters:
\* the student presses the first batch button and the fourth subject
\* button, the other user the second and the first; both type the lecture
\* name of TextInputs.
FlowUsers == {Student, Other}

EnteredBatch(user) == IF user = Student THEN BATCHES[1] ELSE BATCHES[2]

EnteredSubject(user) == IF user = Student THEN SUBJECTS[4] ELSE SUBJECTS[1]

EnteredLectureName(user) == <<"L", "3">>

\* The step leaves the draft and the conversations of every user but the
\* one the update comes from as they were.
OthersUntouched ==
    \A other \in FlowUsers \ {lastUpdate'.user} :
        /\ (other \in DOMAIN user_data_store') = (other \in DOMAIN user_data_store)
        /\ get_user_data(user_data_store', other)
               = get_user_data(user_data_store, other)
        /\ \A key \in (DOMAIN conversations) \cup (DOMAIN conversations') :
               key[2] = other =>
                   /\ key \in DOMAIN conversations
                   /\ key \in DOMAIN conversations'
                   /\ conversations'[key] = conversations[key]

(* C13.  Under any interleaving of events from two different users, an     *)
(* event from user A never changes user B's draft or user B's conversation *)
(* state, and the fields of the Complaint each user submits equal the      *)
(* values that same user entered.                                          *)
(* Fails on the code in its second part, through the fault of C16: a user  *)
(* whose draft was deleted by /start in another chat submits a Complaint   *)
(* whose fields are None.  The first part holds.                           *)
C13_UsersIsolated ==
    [][/\ OthersUntouched
       /\ Handled("photo", "screenshot_handler") =>
              \A id \in (DOMAIN complaint_store') \ (DOMAIN complaint_store) :
                  LET user == lastUpdate'.user
                      c    == complaint_store'[id]
                  IN  /\ c.user_id = user
                      /\ c.username = Username(user)
                      /\ c.batch = EnteredBatch(user)
                      /\ c.subject = EnteredSubject(user)
                      /\ c.lecture_name = EnteredLectureName(user)
                      /\ c.photo_file_id
                             = <<lastUpdate'.data[Len(lastUpdate'.data)]>>]_vars

(* C14.  Once a Complaint is created, its id, user_id, username, batch,    *)
(* subject, lecture_name and photo reference never change and the          *)
(* Complaint is never deleted; its status changes only as the direct       *)
(* effect of a status action by the privileged actor that names it, never  *)
(* as a side effect of a submission-flow event.                            *)
C14_ComplaintsImmutable ==
    [][\A id \in DOMAIN complaint_store :
           /\ id \in DOMAIN complaint_store'
           /\ [complaint_store'[id] EXCEPT !.status = SUBMITTED]
                  = [complaint_store[id] EXCEPT !.status = SUBMITTED]
           /\ complaint_store'[id].status # complaint_store[id].status =>
                  LET parts == StatusParts(lastUpdate'.data)
                  IN  /\ lastUpdate'.kind = "callback_query"
                      /\ lastUpdate'.handler = "admin_status_handler"
                      /\ lastUpdate'.user = ADMIN_CHAT_ID
                      /\ StatusComplaintId(parts) = id
                      /\ complaint_store'[id].status = StatusNewStatus(parts)]_vars

\* A second complaint was submitted after the reviewer had approved the
\* first, which is still approved.
C14_Witness ==
    /\ lastUpdate.kind = "photo"
    /\ lastUpdate.handler = "screenshot_handler"
    /\ DOMAIN complaint_store = {ComplaintId(1), ComplaintId(2)}
    /\ complaint_store[ComplaintId(1)].status = Lower(STATUS_OPTIONS[3])
    /\ complaint_store[ComplaintId(1)].batch = BATCHES[1]
    /\ complaint_store[ComplaintId(2)].status = SUBMITTED

\* The status tokens of the four status buttons (main.py:151)
ButtonStatuses == {Lower(STATUS_OPTIONS[i]) : i \in 1..Len(STATUS_OPTIONS)}

\* Some status button rendered for the complaint, pressed by the reviewer
\* in the reviewer's chat, goes to admin_status_handler (main.py:491),
\* passes its checks (main.py:362-376) and leaves the complaint with this
\* status (main.py:383).
ReviewerCanSet(complaint_id, status) ==
    \E i \in 1..Len(STATUS_OPTIONS) :
        LET data  == get_status_keyboard(complaint_id)[i].callback_data
            parts == StatusParts(data)
        IN  /\ check_update(conversations, "callback_query", ADMIN_CHAT_ID,
                            ADMIN_CHAT_ID, data) = "admin_status_handler"
            /\ is_admin(ADMIN_CHAT_ID)
            /\ StartsWith(data, <<"s", "t", "a", "t", "u", "s", "_">>)
            /\ Len(parts) >= 3
            /\ StatusComplaintId(parts) \in DOMAIN complaint_store
            /\ update_complaint_status(complaint_store, StatusComplaintId(parts),
                   StatusNewStatus(parts))[complaint_id].status = status

(* C15, as claimed.  For every Complaint and every ordered pair (s, t) of  *)
(* statuses in {submitted, send, seen, approved, resolved}, a Complaint    *)
(* whose status is s can be moved to status t by a reviewer action (by     *)
(* none when s is t).                                                      *)
C15_AnyStatusFromAny ==
    \A id \in DOMAIN complaint_store :
        \A t \in {SUBMITTED} \cup ButtonStatuses :
            complaint_store[id].status = t \/ ReviewerCanSet(id, t)

(* C15, amended.  For every Complaint, whatever its status s in            *)
(* {submitted, send, seen, approved, resolved}, and every status t in      *)
(* {send, seen, approved, resolved}, one press of a status button by the   *)
(* reviewer moves the Complaint to t.  No button carries 'submitted'.      *)
C15_ButtonStatusFromAny ==
    /\ \A id \in DOMAIN complaint_store :
           \A t \in ButtonStatuses : ReviewerCanSet(id, t)
    /\ \A id \in ButtonComplaintIds, i \in 1..Len(STATUS_OPTIONS) :
           StatusNewStatus(StatusParts(get_status_keyboard(id)[i].callback_data))
               # SUBMITTED

\* Two complaints that the reviewer has moved to different statuses, the
\* first to the last button's and the second to the first button's.
C15_Witness ==
    /\ lastUpdate.handler = "admin_status_handler"
    /\ lastUpdate.user = ADMIN_CHAT_ID
    /\ DOMAIN complaint_store = {ComplaintId(1), ComplaintId(2)}
    /\ complaint_store[ComplaintId(1)].status = Lower(STATUS_OPTIONS[4])
    /\ complaint_store[ComplaintId(2)].status = Lower(STATUS_OPTIONS[1])

(* C16.  Every Complaint in the store was created with batch, subject,     *)
(* lecture_name and photo reference all present (none None), for every     *)
(* sequence of inbound events, including events of one user arriving       *)
(* through more than one chat.                                             *)
(* Fails on the code: /start in a second chat deletes the draft of the     *)
(* user, whose conversation in the first chat still accepts the photo.     *)
C16_ComplaintsComplete ==
    \A id \in DOMAIN complaint_store :
        /\ complaint_store[id].batch # None
        /\ complaint_store[id].subject # None
        /\ complaint_store[id].lecture_name # None
        /\ complaint_store[id].photo_file_id # None

(* C17.  For every existing Complaint c and each of the four status        *)
(* buttons rendered for c, a press of that button by the privileged actor, *)
(* once acknowledged, sets the status of exactly c to the button's status  *)
(* token (lower-cased), leaves every other Complaint unchanged and sends   *)
(* the submitter of c a notification naming c and the new status; when the *)
(* notification goes through, the reviewer's view of c is refreshed with   *)
(* the new status and the status keyboard of c.                            *)
C17_StatusButtonRoundTrip ==
    [][\A id \in DOMAIN complaint_store, i \in 1..Len(STATUS_OPTIONS) :
           (/\ lastUpdate'.handler = "admin_status_handler"
            /\ lastUpdate'.user = ADMIN_CHAT_ID
            /\ lastUpdate'.data = get_status_keyboard(id)[i].callback_data
            /\ outbox'[1].ok) =>
               LET t == Lower(STATUS_OPTIONS[i])
               IN  /\ complaint_store'
                          = [complaint_store EXCEPT ![id].status = t]
                   /\ Len(outbox') >= 2
                   /\ outbox'[2].method = "send_message"
                   /\ outbox'[2].msg = "status_updated"
                   /\ outbox'[2].chat = complaint_store[id].user_id
                   /\ outbox'[2].id = id
                   /\ outbox'[2].status = t
                   /\ outbox'[2].ok =>
                          /\ Len(outbox') >= 3
                          /\ outbox'[3].method = "edit_message_text"
                          /\ outbox'[3].msg = "complaint_summary"
                          /\ outbox'[3].chat = lastUpdate'.chat
                          /\ outbox'[3].id = id
                          /\ outbox'[3].status = t]_vars

\* The reviewer pressed 'Resolved' on the second of two complaints: it is
\* resolved, the first keeps the status it had, the student was notified
\* and the view was refreshed.
C17_Witness ==
    /\ lastUpdate.handler = "admin_status_handler"
    /\ lastUpdate.user = ADMIN_CHAT_ID
    /\ lastUpdate.data = get_status_keyboard(ComplaintId(2))[4].callback_data
    /\ DOMAIN complaint_store = {ComplaintId(1), ComplaintId(2)}
    /\ complaint_store[ComplaintId(2)].status = Lower(STATUS_OPTIONS[4])
    /\ complaint_store[ComplaintId(1)].status = Lower(STATUS_OPTIONS[2])
    /\ Len(outbox) = 3
    /\ outbox[2].chat = Student
    /\ outbox[2].ok
    /\ outbox[3].ok

\* text is white space, then trimmed, then white space, and trimmed
\* neither starts nor ends with white space.
IsTrimOf(trimmed, text) ==
    /\ trimmed # <<>>
    /\ trimmed[1] \notin Whitespace
    /\ trimmed[Len(trimmed)] \notin Whitespace
    /\ \E i \in 1..Len(text) :
           /\ i + Len(trimmed) - 1 <= Len(text)
           /\ SubSeq(text, i, i + Len(trimmed) - 1) = trimmed
           /\ IsBlank(SubSeq(text, 1, i - 1))
           /\ IsBlank(SubSeq(text, i + Len(trimmed), Len(text)))

(* C18.  For every batch name B in the batch list, every subject S in the  *)
(* subject list and every non-blank lecture text L: a press of the button  *)
(* rendered for B stores exactly B in the draft, a press of the button     *)
(* rendered for S stores exactly S, typing L stores L trimmed, and the     *)
(* photo that follows creates a Complaint with exactly these three values: *)
(* encoding a name into callback data and decoding it in the handler is a  *)
(* round trip.                                                             *)
C18_NamesRoundTrip ==
    [][LET user == lastUpdate'.user
           data == lastUpdate'.data
       IN  /\ \A i \in 1..Len(BATCHES) :
                  (/\ lastUpdate'.handler = "batch_selection_handler"
                   /\ data = get_batch_keyboard[i].callback_data) =>
                      user_data_store'[user]["batch"] = BATCHES[i]
           /\ \A i \in 1..Len(SUBJECTS) :
                  (/\ lastUpdate'.handler = "subject_selection_handler"
                   /\ data = get_subject_keyboard[i].callback_data) =>
                      user_data_store'[user]["subject"] = SUBJECTS[i]
           /\ (Handled("text", "lecture_name_handler") /\ ~IsBlank(data)) =>
                  IsTrimOf(user_data_store'[user]["lecture_name"], data)
           /\ Handled("photo", "screenshot_handler") =>
                  \A id \in (DOMAIN complaint_store') \ (DOMAIN complaint_store) :
                      /\ complaint_store'[id].batch = user_data_store[user]["batch"]
                      /\ complaint_store'[id].subject
                             = user_data_store[user]["subject"]
                      /\ complaint_store'[id].lecture_name
                             = user_data_store[user]["lecture_name"]
                      /\ complaint_store'[id].batch \in Range(BATCHES)
                      /\ complaint_store'[id].subject \in Range(SUBJECTS)
                      /\ \E text \in TextInputs :
                             IsTrimOf(complaint_store'[id].lecture_name, text)]_vars

\* Two complaints made through different buttons: the batch of three
\* spaces and a dot with the subject of one word, then the last batch with
\* the subject of two words; both carry the lecture name without the
\* white space typed around it.
C18_Witness ==
    /\ lastUpdate.kind = "photo"
    /\ lastUpdate.handler = "screenshot_handler"
    /\ DOMAIN complaint_store = {ComplaintId(1), ComplaintId(2)}
    /\ complaint_store[ComplaintId(1)].batch = BATCHES[1]
    /\ complaint_store[ComplaintId(1)].subject = SUBJECTS[1]
    /\ complaint_store[ComplaintId(2)].batch = BATCHES[3]
    /\ complaint_store[ComplaintId(2)].subject = SUBJECTS[4]
    /\ complaint_store[ComplaintId(2)].lecture_name = <<"L", "3">>

(* C19.  Each completed draft yields at most one Complaint even when an    *)
(* outbound send fails during photo handling: after a photo was handled in *)
(* AwaitingPhoto, the user is not left in AwaitingPhoto with the draft     *)
(* still present, so a further photo cannot create a second Complaint from *)
(* the same draft.                                                         *)
(* Fails on the code: the Complaint is created before the confirmation is  *)
(* sent; when that send raises, the draft is kept and the conversation     *)
(* stays in SCREENSHOT_UPLOAD.                                             *)
C19_OneComplaintPerDraft ==
    [][Handled("photo", "screenshot_handler") =>
          LET key == Key(lastUpdate'.chat, lastUpdate'.user)
          IN  ~(/\ key \in DOMAIN conversations'
                /\ conversations'[key] = SCREENSHOT_UPLOAD
                /\ lastUpdate'.user \in DOMAIN user_data_store'
                /\ {"batch", "subject", "lecture_name"}
                       \subseteq DOMAIN user_data_store'[lastUpdate'.user])]_vars

\* The fields the draft of a user holds
DraftFields(user) == DOMAIN get_user_data(user_data_store, user)

(* C20.  In every reachable state the draft store agrees with the          *)
(* conversation state of each user: a user in Terminal has no draft entry; *)
(* in AwaitingBatch the draft has no fields; in AwaitingSubject exactly    *)
(* batch is set; in AwaitingLectureName exactly batch and subject are set; *)
(* in AwaitingPhoto batch, subject and lecture_name are all set.           *)
(* Fails on the code: the draft is keyed by user id and the conversation   *)
(* by (chat id, user id), so /start in a second chat empties the draft     *)
(* under the conversation of the first.                                    *)
C20_DraftAgreesWithState ==
    /\ \A user \in DOMAIN user_data_store :
           \E key \in DOMAIN conversations : key[2] = user
    /\ \A key \in DOMAIN conversations :
           LET state  == conversations[key]
               fields == DraftFields(key[2])
           IN  /\ state = BATCH_SELECTION => fields = {}
               /\ state = SUBJECT_SELECTION => fields = {"batch"}
               /\ state = LECTURE_NAME_INPUT => fields = {"batch", "subject"}
               /\ state = SCREENSHOT_UPLOAD =>
                      {"batch", "subject", "lecture_name"} \subseteq fields

=============================================================================
